---------------------------- MODULE Spec2Model ----------------------------
(***************************************************************************)
(* A model of misterm: lstm.py (corpus extraction and training windows)   *)
(* and predict.py (autoregressive generation and score reconstruction).   *)
(*                                                                         *)
(* Strings are sequences of one-character strings, so that formatting,    *)
(* splitting, parsing and lexicographic sorting are computed, not assumed. *)
(* Two specifications are given:                                           *)
(*   SpecExtract  lstm.get_notes over a corpus, run twice                  *)
(*   Spec         lstm.prepare_sequences and predict.generate over the     *)
(*                token stream found in data/notes                         *)
(***************************************************************************)
EXTENDS Integers, Sequences, FiniteSets, TLC

(***************************************************************************)
(* Bounds of the model.  The window lengths and the number of generated   *)
(* notes are the program's 100, 64 and 500 scaled down.                    *)
(***************************************************************************)
MaxFiles == 2
MaxRuns == 2
MaxNotes == 4
LstmSequenceLength == 2
PredictSequenceLength == 2
NumGenerated == 2

(***************************************************************************)
(* Characters and strings                                                  *)
(***************************************************************************)
\* The characters that occur, in code point order.
Alphabet ==
  << " ", ".", "/", "0", "1", "2", "3", "4", "5", "6", "7", "8", "9",
     "C", "E", "N", "a", "e", "f", "g", "h", "l", "n", "o" >>

Ord(c) == CHOOSE i \in 1..Len(Alphabet) : Alphabet[i] = c

Digits == <<"0", "1", "2", "3", "4", "5", "6", "7", "8", "9">>

IsDigit(c) == \E i \in 1..10 : Digits[i] = c

DigitValue(c) == (CHOOSE i \in 1..10 : Digits[i] = c) - 1

Range(s) == {s[i] : i \in 1..Len(s)}

\* Python's None where a MIDI program number is expected.
None == 0 - 1

\* str(None) for an instrument name.
NoName == "None"

RECURSIVE IntToStr(_)
IntToStr(n) ==
  IF n < 10 THEN <<Digits[n + 1]>>
  ELSE IntToStr(n \div 10) \o <<Digits[(n % 10) + 1]>>

\* '%s' % x for a MIDI program: an int or None.
Str(x) == IF x = None THEN <<"N", "o", "n", "e">> ELSE IntToStr(x)

\* '%s' % q for a quarterLength or offset <<n, d>> = n/d: music21 gives a
\* float where the value is a binary fraction and a Fraction otherwise.
StrNum(q) ==
  IF q[2] = 1 THEN IntToStr(q[1]) \o <<".", "0">>
  ELSE IF q[2] = 2
       THEN IntToStr(q[1] \div 2) \o <<".">> \o
            (IF q[1] % 2 = 1 THEN <<"5">> ELSE <<"0">>)
       ELSE IntToStr(q[1]) \o <<"/">> \o IntToStr(q[2])

\* ' '.join(words)
RECURSIVE Join(_)
Join(words) ==
  IF Len(words) = 0 THEN <<>>
  ELSE IF Len(words) = 1 THEN words[1]
  ELSE words[1] \o <<" ">> \o Join(Tail(words))

\* s.split(): the maximal runs of non-blank characters.
RECURSIVE SplitFrom(_, _, _)
SplitFrom(s, i, word) ==
  IF i > Len(s)
  THEN (IF word = <<>> THEN <<>> ELSE <<word>>)
  ELSE IF s[i] = " "
       THEN (IF word = <<>> THEN <<>> ELSE <<word>>) \o SplitFrom(s, i + 1, <<>>)
       ELSE SplitFrom(s, i + 1, Append(word, s[i]))

Split(s) == SplitFrom(s, 1, <<>>)

\* s.split('/')
RECURSIVE SplitSlashFrom(_, _, _)
SplitSlashFrom(s, i, word) ==
  IF i > Len(s) THEN <<word>>
  ELSE IF s[i] = "/"
       THEN <<word>> \o SplitSlashFrom(s, i + 1, <<>>)
       ELSE SplitSlashFrom(s, i + 1, Append(word, s[i]))

SplitSlash(s) == SplitSlashFrom(s, 1, <<>>)

\* a < b for Python strings: code point order, a proper prefix first.
LexLess(a, b) ==
  \E k \in 1..(Len(b)) :
    /\ \A j \in 1..(k - 1) : j <= Len(a) /\ a[j] = b[j]
    /\ \/ k = Len(a) + 1
       \/ k <= Len(a) /\ Ord(a[k]) < Ord(b[k])

\* sorted(S, reverse=True)
RECURSIVE sorted_descending(_)
sorted_descending(S) ==
  IF S = {} THEN <<>>
  ELSE LET m == CHOOSE x \in S : \A y \in S : x = y \/ LexLess(y, x)
       IN  <<m>> \o sorted_descending(S \ {m})

\* sorted(S) for a set of strings.
RECURSIVE sorted(_)
sorted(S) ==
  IF S = {} THEN <<>>
  ELSE LET m == CHOOSE x \in S : \A y \in S : x = y \/ LexLess(x, y)
       IN  <<m>> \o sorted(S \ {m})

\* dict((note, number) for number, note in enumerate(pitchnames))
NoteToInt(names) ==
  [t \in Range(names) |->
     (CHOOSE i \in 1..Len(names) :
        names[i] = t /\ \A j \in (i + 1)..Len(names) : names[j] # t) - 1]

\* dict((number, note) for number, note in enumerate(pitchnames))
IntToNote(names) == [i \in 0..(Len(names) - 1) |-> names[i + 1]]

\* random.randint(a, b): both ends included.
randint(a, b) == a..b

\* numpy.random.randint(low, high): high excluded; ValueError when empty.
numpy_randint(low, high) == low..(high - 1)

(***************************************************************************)
(* State                                                                   *)
(***************************************************************************)
VARIABLES
  \* lstm.get_notes
  corpus,            \* glob.glob("dataset/*.mid"): the documents, in order
  file_index,        \* the file the scan is at (1-based)
  notes,             \* the list get_notes builds and returns
  data_notes,        \* the file data/notes: [exists, content]
  get_pc,            \* "scan", "dump", "done", "raised"
  run_no,            \* which extraction run this is
  prev_notes,        \* what the previous extraction run returned
  \* lstm.prepare_sequences
  train_pc,          \* "idle", "returned", "raised"
  train_note_to_int,
  train_input,       \* network_input, before reshape
  train_output,      \* network_output, before to_categorical
  \* predict.generate
  gen_pc,            \* position in generate / generate_notes / create_midi
  err,               \* exception that ended the run: <<class, function>>
  loaded_notes,      \* notes, as unpickled
  pitchnames,
  n_vocab,
  note_to_int,
  network_input,
  int_to_note,
  start,
  pattern,
  aliased,           \* pattern is the list object network_input[start]
  note_index,
  prediction_output,
  \* predict.create_midi
  token_index,       \* the token of prediction_output being decoded
  instruments,       \* the dict, in insertion order: <<[key, elems], ...>>
  key_index,         \* the instrument key being resolved
  midi_stream,       \* the parts appended to the score
  warnings,          \* the instrument keys a warning was printed for
  output_file        \* whether a .mid file has been written

extract_vars == <<corpus, file_index, notes, data_notes, get_pc, run_no, prev_notes>>
train_vars == <<train_pc, train_note_to_int, train_input, train_output>>
gen_vars == <<gen_pc, err, loaded_notes, pitchnames, n_vocab, note_to_int,
              network_input, int_to_note, start, pattern, aliased, note_index,
              prediction_output>>
midi_vars == <<token_index, instruments, key_index, midi_stream, warnings,
               output_file>>
vars == <<extract_vars, train_vars, gen_vars, midi_vars>>

(***************************************************************************)
(* lstm.get_notes                                                          *)
(***************************************************************************)
C4 == <<"C", "4">>
E4 == <<"E", "4">>

Note(p, ql, off) ==
  [cls |-> "Note", pitches |-> <<p>>, quarterLength |-> ql, offset |-> off]
Chord(ps, ql, off) ==
  [cls |-> "Chord", pitches |-> ps, quarterLength |-> ql, offset |-> off]
Rest(ql, off) ==
  [cls |-> "Rest", pitches |-> <<>>, quarterLength |-> ql, offset |-> off]
Part(name, program, elems) ==
  [cls |-> "Part", instrumentName |-> name, midiProgram |-> program,
   elements |-> elems]

\* What converter.parse and instrument.partitionByInstrument make of a
\* file: parses is whether converter.parse returns; parts is s2.parts, and
\* partitioned is FALSE when partitionByInstrument finds no instrument and
\* returns None; flat is midi.flat.notes, the notes and chords only.
Documents ==
  { [parses |-> FALSE, partitioned |-> FALSE, parts |-> <<>>, flat |-> <<>>],
    [parses |-> TRUE, partitioned |-> TRUE,
     parts |-> << Part("Piano", 0,
                       << Note(C4, <<1, 1>>, <<0, 1>>),
                          Rest(<<1, 1>>, <<1, 1>>),
                          Chord(<<C4, E4>>, <<1, 3>>, <<2, 1>>) >>) >>,
     flat |-> << Note(C4, <<1, 1>>, <<0, 1>>),
                 Chord(<<C4, E4>>, <<1, 3>>, <<2, 1>>) >>],
    [parses |-> TRUE, partitioned |-> TRUE,
     parts |-> << Part(NoName, None, << Note(E4, <<1, 2>>, <<0, 1>>) >>) >>,
     flat |-> << Note(E4, <<1, 2>>, <<0, 1>>) >>],
    [parses |-> TRUE, partitioned |-> FALSE, parts |-> <<>>,
     flat |-> << Note(C4, <<1, 1>>, <<0, 1>>),
                 Chord(<<E4, C4>>, <<1, 2>>, <<1, 1>>) >>] }

\* midiProgram of an instance of each class of
\* instrument.Instrument.__subclasses__(), in order.
SubclassPrograms == <<0, 48, None>>

\* '%s %s %s %s' % (iid, pitches, quarterLength, offset)
Format(iid, ps, ql, off) ==
  Join(<<Str(iid), Join(ps), StrNum(ql), StrNum(off)>>)

\* The tokens the inner loop appends for the elements of one part.
RECURSIVE PartTokens(_, _)
PartTokens(iid, elems) ==
  IF elems = <<>> THEN <<>>
  ELSE LET element == Head(elems)
           tok == IF element.cls \in {"Note", "Chord"}
                  THEN << Format(iid, element.pitches, element.quarterLength,
                                 element.offset) >>
                  ELSE <<>>
       IN  tok \o PartTokens(iid, Tail(elems))

\* The tokens one pass of the loop over notes_to_parse appends; r is the
\* index randint drew for this pass.
ItemTokens(item, r) ==
  LET iid == SubclassPrograms[r]
  IN  IF item.cls = "Note"
      THEN << Format(iid, item.pitches, item.quarterLength, item.offset) >>
      ELSE IF item.cls = "Part"
           THEN PartTokens(IF item.instrumentName # NoName
                           THEN item.midiProgram ELSE iid,
                           item.elements)
           ELSE <<>>

RECURSIVE DocTokens(_, _)
DocTokens(items, rs) ==
  IF items = <<>> THEN <<>>
  ELSE ItemTokens(Head(items), Head(rs)) \o DocTokens(Tail(items), Tail(rs))

\* try: s2.parts  except: midi.flat.notes
NotesToParse(midi) == IF midi.partitioned THEN midi.parts ELSE midi.flat

\* The loop over the files with converter.parse inside a try that skips the
\* file.
get_notes_file_skipping ==
  /\ get_pc = "scan"
  /\ file_index <= Len(corpus)
  /\ LET midi == corpus[file_index]
     IN  IF ~midi.parses
         THEN /\ file_index' = file_index + 1
              /\ UNCHANGED <<get_pc, notes>>
         ELSE LET notes_to_parse == NotesToParse(midi)
              IN  \E rs \in [1..Len(notes_to_parse) ->
                               randint(1, Len(SubclassPrograms))] :
                    /\ notes' = notes \o DocTokens(notes_to_parse, rs)
                    /\ file_index' = file_index + 1
                    /\ get_pc' = "scan"
  /\ UNCHANGED <<corpus, data_notes, run_no, prev_notes>>
  /\ UNCHANGED <<train_vars, gen_vars, midi_vars>>

\* One pass of the loop over the files.  converter.parse is outside the
\* try, so its exception leaves get_notes.
get_notes_file ==
  /\ get_pc = "scan"
  /\ file_index <= Len(corpus)
  /\ LET midi == corpus[file_index]
     IN  IF ~midi.parses
         THEN /\ get_pc' = "raised"
              /\ UNCHANGED <<file_index, notes>>
         ELSE LET notes_to_parse == NotesToParse(midi)
              IN  \E rs \in [1..Len(notes_to_parse) ->
                               randint(1, Len(SubclassPrograms))] :
                    /\ notes' = notes \o DocTokens(notes_to_parse, rs)
                    /\ file_index' = file_index + 1
                    /\ get_pc' = "scan"
  /\ UNCHANGED <<corpus, data_notes, run_no, prev_notes>>
  /\ UNCHANGED <<train_vars, gen_vars, midi_vars>>

\* pickle.dump(notes, filepath); return notes
get_notes_dump ==
  /\ get_pc = "scan"
  /\ file_index > Len(corpus)
  /\ data_notes' = [exists |-> TRUE, content |-> notes]
  /\ get_pc' = "done"
  /\ UNCHANGED <<corpus, file_index, notes, run_no, prev_notes>>
  /\ UNCHANGED <<train_vars, gen_vars, midi_vars>>

\* The program is started again on the unchanged corpus.
get_notes_again ==
  /\ get_pc \in {"done", "raised"}
  /\ run_no < MaxRuns
  /\ run_no' = run_no + 1
  /\ prev_notes' = IF get_pc = "done" THEN notes ELSE prev_notes
  /\ notes' = <<>>
  /\ file_index' = 1
  /\ get_pc' = "scan"
  /\ UNCHANGED <<corpus, data_notes>>
  /\ UNCHANGED <<train_vars, gen_vars, midi_vars>>

(***************************************************************************)
(* Vocabulary and windows: lstm.prepare_sequences, predict.prepare_sequences*)
(***************************************************************************)
\* network_input of lstm.prepare_sequences, before the reshape.
lstm_network_input(ns) ==
  LET m == NoteToInt(sorted(Range(ns)))
  IN  [i \in 1..(IF Len(ns) > LstmSequenceLength
                 THEN Len(ns) - LstmSequenceLength ELSE 0) |->
         [j \in 1..LstmSequenceLength |-> m[ns[i + j - 1]]]]

\* sequence_out = notes[i + sequence_length - 1]
lstm_network_output_inside(ns) ==
  LET m == NoteToInt(sorted(Range(ns)))
  IN  [i \in 1..(IF Len(ns) > LstmSequenceLength
                 THEN Len(ns) - LstmSequenceLength ELSE 0) |->
         m[ns[i + LstmSequenceLength - 1]]]

\* network_output of lstm.prepare_sequences, before to_categorical.
lstm_network_output(ns) ==
  LET m == NoteToInt(sorted(Range(ns)))
  IN  [i \in 1..(IF Len(ns) > LstmSequenceLength
                 THEN Len(ns) - LstmSequenceLength ELSE 0) |->
         m[ns[i + LstmSequenceLength]]]

\* network_input of predict.prepare_sequences.
predict_network_input(ns, m) ==
  [i \in 1..(IF Len(ns) > PredictSequenceLength
             THEN Len(ns) - PredictSequenceLength ELSE 0) |->
     [j \in 1..PredictSequenceLength |-> m[ns[i + j - 1]]]]

\* output of predict.prepare_sequences: built, and dropped at the return.
predict_output(ns, m) ==
  [i \in 1..(IF Len(ns) > PredictSequenceLength
             THEN Len(ns) - PredictSequenceLength ELSE 0) |->
     m[ns[i + PredictSequenceLength]]]

\* train_network, after get_notes: prepare_sequences(notes, n_vocab).
\* np_utils.to_categorical takes the maximum of network_output, which fails
\* on an empty list in the numpy versions that define no identity for it.
lstm_prepare_sequences ==
  /\ get_pc = "done"
  /\ train_pc = "idle"
  /\ gen_pc = "start"
  /\ train_note_to_int' = NoteToInt(sorted(Range(notes)))
  /\ train_input' = lstm_network_input(notes)
  /\ train_output' = lstm_network_output(notes)
  /\ \/ train_pc' = "returned"
     \/ Len(notes) <= LstmSequenceLength /\ train_pc' = "raised"
  /\ UNCHANGED <<extract_vars, gen_vars, midi_vars>>

(***************************************************************************)
(* predict.generate                                                        *)
(***************************************************************************)
NoErr == <<"", "">>

Raise(class, fn) ==
  /\ gen_pc' = "raised"
  /\ err' = <<class, fn>>

\* open('data/notes'), pickle.load, pitchnames, n_vocab.  The weights
\* generate goes on to load are those of a training run, so train_network
\* has been through prepare_sequences when there was a stream to train on.
generate_load ==
  /\ gen_pc = "start"
  /\ get_pc = "done" => train_pc # "idle"
  /\ IF data_notes.exists
     THEN /\ loaded_notes' = data_notes.content
          /\ pitchnames' = sorted(Range(data_notes.content))
          /\ n_vocab' = Cardinality(Range(data_notes.content))
          /\ gen_pc' = "prepare"
          /\ UNCHANGED err
     ELSE /\ Raise("FileNotFoundError", "generate")
          /\ UNCHANGED <<loaded_notes, pitchnames, n_vocab>>
  /\ UNCHANGED <<note_to_int, network_input, int_to_note, start, pattern,
                 aliased, note_index, prediction_output>>
  /\ UNCHANGED <<extract_vars, train_vars, midi_vars>>

\* prepare_sequences(notes, pitchnames, n_vocab)
generate_prepare_sequences ==
  /\ gen_pc = "prepare"
  /\ note_to_int' = NoteToInt(pitchnames)
  /\ network_input' = predict_network_input(loaded_notes, NoteToInt(pitchnames))
  /\ gen_pc' = "create_network"
  /\ UNCHANGED <<err, loaded_notes, pitchnames, n_vocab, int_to_note, start,
                 pattern, aliased, note_index, prediction_output>>
  /\ UNCHANGED <<extract_vars, train_vars, midi_vars>>

\* create_network: the sequence model is built and its weights loaded, or
\* keras raises (no weights file, weights of another shape).
generate_create_network ==
  /\ gen_pc = "create_network"
  /\ \/ gen_pc' = "seed" /\ UNCHANGED err
     \/ Raise("Exception", "create_network")
  /\ UNCHANGED <<loaded_notes, pitchnames, n_vocab, note_to_int, network_input,
                 int_to_note, start, pattern, aliased, note_index,
                 prediction_output>>
  /\ UNCHANGED <<extract_vars, train_vars, midi_vars>>

\* The values start can take.
SeedChoices(input) == numpy_randint(0, Len(input) - 1)

\* generate_notes up to the loop: start, int_to_note, pattern.
generate_notes_seed ==
  /\ gen_pc = "seed"
  /\ IF SeedChoices(network_input) = {}
     THEN /\ Raise("ValueError", "generate_notes")
          /\ UNCHANGED <<int_to_note, start, pattern, aliased, note_index,
                         prediction_output>>
     ELSE \E s \in SeedChoices(network_input) :
            /\ start' = s
            /\ int_to_note' = IntToNote(pitchnames)
            /\ pattern' = network_input[s + 1]
            /\ aliased' = TRUE
            /\ prediction_output' = <<>>
            /\ note_index' = 0
            /\ gen_pc' = "loop"
            /\ UNCHANGED err
  /\ UNCHANGED <<loaded_notes, pitchnames, n_vocab, note_to_int, network_input>>
  /\ UNCHANGED <<extract_vars, train_vars, midi_vars>>

\* pattern.append(index) without the slice
SlideNoDrop(p, index) == Append(p, index)

\* The window after one pass: pattern.append(index); pattern[1:len(pattern)]
Slide(p, index) == Tail(Append(p, index))

\* Whether the loop goes on: range(500).
LoopContinues(k) == k < NumGenerated

\* One pass of the generation loop.  model.predict answers with a
\* distribution over the n_vocab ids, of which argmax takes one, or raises.
\* The first append is to the list inside network_input.
generate_notes_step ==
  /\ gen_pc = "loop"
  /\ LoopContinues(note_index)
  /\ \/ /\ Raise("Exception", "model.predict")
        /\ UNCHANGED <<network_input, pattern, aliased, note_index,
                       prediction_output>>
     \/ \E index \in 0..(n_vocab - 1) :
          /\ prediction_output' = Append(prediction_output, int_to_note[index])
          /\ network_input' =
               IF aliased
               THEN [network_input EXCEPT ![start + 1] = Append(@, index)]
               ELSE network_input
          /\ pattern' = Slide(pattern, index)
          /\ aliased' = FALSE
          /\ note_index' = note_index + 1
          /\ UNCHANGED <<gen_pc, err>>
  /\ UNCHANGED <<loaded_notes, pitchnames, n_vocab, note_to_int, int_to_note,
                 start>>
  /\ UNCHANGED <<extract_vars, train_vars, midi_vars>>

\* return prediction_output, and the entry into create_midi.
generate_notes_return ==
  /\ gen_pc = "loop"
  /\ ~LoopContinues(note_index)
  /\ gen_pc' = "decode"
  /\ token_index' = 1
  /\ instruments' = <<>>
  /\ UNCHANGED <<err, loaded_notes, pitchnames, n_vocab, note_to_int,
                 network_input, int_to_note, start, pattern, aliased,
                 note_index, prediction_output>>
  /\ UNCHANGED <<key_index, midi_stream, warnings, output_file>>
  /\ UNCHANGED <<extract_vars, train_vars>>

(***************************************************************************)
(* predict.set_duration                                                    *)
(***************************************************************************)
\* The names predict.py binds by its import statements.
ImportedNames ==
  { "pickle", "numpy", "argparse", "tqdm", "copy", "randint", "sample",
    "instrument", "note", "stream", "chord", "meter", "RandomWords",
    "Sequential", "Dense", "Dropout", "LSTM", "BatchNorm", "Activation" }

\* The type names music21's duration.Duration(name) accepts, over the
\* alphabet of the model.
DurationTypes == { <<"h", "a", "l", "f">>, <<"l", "o", "n", "n", "g", "a">> }

AllDigits(w) == Len(w) > 0 /\ \A i \in 1..Len(w) : IsDigit(w[i])

RECURSIVE StrToInt(_)
StrToInt(w) ==
  IF Len(w) = 0 THEN 0
  ELSE 10 * StrToInt(SubSeq(w, 1, Len(w) - 1)) + DigitValue(w[Len(w)])

\* Whether float(d) returns, for literals over the alphabet of the model:
\* digits with at most one point and at least one digit.
FloatAccepts(d) ==
  /\ \A i \in 1..Len(d) : IsDigit(d[i]) \/ d[i] = "."
  /\ Cardinality({i \in 1..Len(d) : d[i] = "."}) <= 1
  /\ \E i \in 1..Len(d) : IsDigit(d[i])

RECURSIVE Pow10(_)
Pow10(k) == IF k = 0 THEN 1 ELSE 10 * Pow10(k - 1)

\* float(d) as the pair <<numerator, denominator>>.
FloatValue(d) ==
  LET dots == {i \in 1..Len(d) : d[i] = "."}
      digs == SelectSeq(d, IsDigit)
  IN  IF dots = {} THEN <<StrToInt(digs), 1>>
      ELSE LET p == CHOOSE i \in dots : TRUE
           IN  <<StrToInt(digs), Pow10(Len(d) - p)>>

\* The third form: duration.Duration(d), a lookup of the global name
\* duration followed by music21's constructor.
DurationByName(d) ==
  IF "duration" \notin ImportedNames
  THEN [ok |-> FALSE, error |-> "NameError", form |-> "", value |-> <<>>]
  ELSE IF d \in DurationTypes
       THEN [ok |-> TRUE, error |-> "", form |-> "name", value |-> d]
       ELSE [ok |-> FALSE, error |-> "DurationException", form |-> "",
             value |-> <<>>]

\* The second form: int(q[0]) / int(q[-1]) on d.split('/').
DurationByQuotient(d) ==
  LET q == SplitSlash(d)
  IN  IF ~(AllDigits(q[1]) /\ AllDigits(q[Len(q)]))
      THEN [ok |-> FALSE, error |-> "ValueError", form |-> "", value |-> <<>>]
      ELSE IF StrToInt(q[Len(q)]) = 0
           THEN [ok |-> FALSE, error |-> "ZeroDivisionError", form |-> "",
                 value |-> <<>>]
           ELSE [ok |-> TRUE, error |-> "", form |-> "quotient",
                 value |-> <<StrToInt(q[1]), StrToInt(q[Len(q)])>>]

\* What set_duration makes of the duration literal d.
DecodeDuration(d) ==
  IF FloatAccepts(d)
  THEN [ok |-> TRUE, error |-> "", form |-> "float", value |-> FloatValue(d)]
  ELSE IF \E i \in 1..Len(d) : d[i] = "/"
       THEN DurationByQuotient(d)
       ELSE DurationByName(d)

\* set_duration(p, d, o): the element p with its duration and offset set,
\* or the exception.
set_duration(p, d, o) ==
  LET r == DecodeDuration(d)
  IN  IF r.ok
      THEN [ok |-> TRUE, error |-> "",
            element |-> [cls |-> p.cls, pitches |-> p.pitches,
                         form |-> r.form, quarterLength |-> r.value,
                         offset |-> o]]
      ELSE [ok |-> FALSE, error |-> r.error, element |-> p]

(***************************************************************************)
(* predict.create_midi                                                     *)
(***************************************************************************)
HasKey(dict, k) == \E i \in 1..Len(dict) : dict[i].key = k

\* instruments[k] = [] when k is not a key yet
WithKey(dict, k) ==
  IF HasKey(dict, k) THEN dict ELSE Append(dict, [key |-> k, elems |-> <<>>])

\* instruments[k].append(e)
AppendTo(dict, k, e) ==
  [i \in 1..Len(dict) |->
     IF dict[i].key = k
     THEN [key |-> k, elems |-> Append(dict[i].elems, e)]
     ELSE dict[i]]

\* One pass of the loop over prediction_output: split the token, make the
\* chord or the note, set its duration and offset, file it under its
\* instrument.  music21 is taken to accept the pitch names of the vocabulary.
create_midi_token ==
  /\ gen_pc = "decode"
  /\ token_index <= Len(prediction_output)
  /\ LET parts == Split(prediction_output[token_index])
     IN  IF Len(parts) < 2
         THEN /\ Raise("IndexError", "create_midi")
              /\ UNCHANGED <<token_index, instruments>>
         ELSE LET _instrument == parts[1]
                  _notes == SubSeq(parts, 2, Len(parts) - 2)
                  _duration == parts[Len(parts) - 1]
                  _offset == parts[Len(parts)]
                  dict == WithKey(instruments, _instrument)
                  made == set_duration(
                            [cls |-> IF Len(_notes) > 1 THEN "Chord" ELSE "Note",
                             pitches |-> _notes],
                            _duration, _offset)
              IN  IF Len(_notes) = 0
                  THEN /\ instruments' = dict
                       /\ token_index' = token_index + 1
                       /\ UNCHANGED <<gen_pc, err>>
                  ELSE IF made.ok
                       THEN /\ instruments' = AppendTo(dict, _instrument, made.element)
                            /\ token_index' = token_index + 1
                            /\ UNCHANGED <<gen_pc, err>>
                       ELSE /\ Raise(made.error, "set_duration")
                            /\ UNCHANGED <<token_index, instruments>>
  /\ UNCHANGED <<loaded_notes, pitchnames, n_vocab, note_to_int, network_input,
                 int_to_note, start, pattern, aliased, note_index,
                 prediction_output>>
  /\ UNCHANGED <<key_index, midi_stream, warnings, output_file>>
  /\ UNCHANGED <<extract_vars, train_vars>>

\* The loop over prediction_output is over: midi_stream = stream.Score().
create_midi_score ==
  /\ gen_pc = "decode"
  /\ token_index > Len(prediction_output)
  /\ gen_pc' = "resolve"
  /\ key_index' = 1
  /\ midi_stream' = <<>>
  /\ UNCHANGED <<token_index, instruments, warnings, output_file>>
  /\ UNCHANGED <<err, loaded_notes, pitchnames, n_vocab, note_to_int,
                 network_input, int_to_note, start, pattern, aliased,
                 note_index, prediction_output>>
  /\ UNCHANGED <<extract_vars, train_vars>>

\* The program numbers instrument.instrumentFromMidiProgram finds an
\* instrument for; for any other it raises.
MidiPrograms == 0..127

\* The classes of instrument.Instrument.__subclasses__(), in order.
InstrumentCatalog == <<"KeyboardInstrument", "StringInstrument", "Percussion">>

\* get_random_instrument(): the instruments it can return.
get_random_instrument ==
  {InstrumentCatalog[r + 1] : r \in randint(0, Len(InstrumentCatalog) - 1)}

\* Whether int(k) followed by instrumentFromMidiProgram returns.
LookupSucceeds(k) == AllDigits(k) /\ StrToInt(k) \in MidiPrograms

\* The lookup without the try/except around it.
ResolveInstrumentUncaught(k) ==
  IF LookupSucceeds(k)
  THEN [raised |-> FALSE, warned |-> FALSE,
        found |-> {<<"program", StrToInt(k)>>}]
  ELSE [raised |-> TRUE, warned |-> FALSE, found |-> {}]

\* The try/except of create_midi: [raised, found, warned] for the key k,
\* found being the instruments current_instrument can end up as.
ResolveInstrument(k) ==
  IF LookupSucceeds(k)
  THEN [raised |-> FALSE, warned |-> FALSE,
        found |-> {<<"program", StrToInt(k)>>}]
  ELSE [raised |-> FALSE, warned |-> TRUE,
        found |-> {<<"random", c>> : c \in get_random_instrument}]

\* One pass of the loop over instruments.keys(): resolve the instrument,
\* build the part, append it to the score.  (makeMeasures, under
\* args.optimizer, is music21's and is left out.)
create_midi_part ==
  /\ gen_pc = "resolve"
  /\ key_index <= Len(instruments)
  /\ LET instrument_key == instruments[key_index].key
         r == ResolveInstrument(instrument_key)
     IN  IF r.raised
         THEN /\ Raise("Exception", "instrumentFromMidiProgram")
              /\ UNCHANGED <<key_index, midi_stream, warnings>>
         ELSE \E current_instrument \in r.found :
                /\ midi_stream' =
                     Append(midi_stream,
                            << [cls |-> "TimeSignature", value |-> "3/4"],
                               [cls |-> "Instrument", value |-> current_instrument] >>
                            \o instruments[key_index].elems)
                /\ warnings' = IF r.warned
                               THEN Append(warnings, instrument_key)
                               ELSE warnings
                /\ key_index' = key_index + 1
                /\ UNCHANGED <<gen_pc, err>>
  /\ UNCHANGED <<token_index, instruments, output_file>>
  /\ UNCHANGED <<loaded_notes, pitchnames, n_vocab, note_to_int, network_input,
                 int_to_note, start, pattern, aliased, note_index,
                 prediction_output>>
  /\ UNCHANGED <<extract_vars, train_vars>>

\* midi_stream.write inside the loop over the instruments.
AtWriteInLoop == gen_pc = "resolve"

\* Where create_midi is when it calls midi_stream.write.
AtWrite == gen_pc = "resolve" /\ key_index > Len(instruments)

\* names = ... RandomWords().get_random_words() ...; midi_stream.write(...):
\* the word service may give nothing, and sample then raises.
create_midi_write ==
  /\ AtWrite
  /\ \/ /\ output_file' = TRUE
        /\ gen_pc' = "done"
        /\ UNCHANGED err
     \/ /\ Raise("TypeError", "create_midi")
        /\ UNCHANGED output_file
  /\ UNCHANGED <<token_index, instruments, key_index, midi_stream, warnings>>
  /\ UNCHANGED <<loaded_notes, pitchnames, n_vocab, note_to_int, network_input,
                 int_to_note, start, pattern, aliased, note_index,
                 prediction_output>>
  /\ UNCHANGED <<extract_vars, train_vars>>

(***************************************************************************)
(* Specifications                                                          *)
(***************************************************************************)
RECURSIVE SeqsUpTo(_, _)
SeqsUpTo(S, n) ==
  IF n = 0 THEN {<<>>}
  ELSE LET shorter == SeqsUpTo(S, n - 1)
       IN  shorter \cup {Append(q, x) : q \in shorter, x \in S}

\* The tokens data/notes is drawn from: a note with a program number out
\* of range, a chord with a rational duration, a note of an instrument
\* without program number, a note with a named duration.
Tokens ==
  { Join(<< <<"2", "0", "0">>, C4, <<"1", ".", "0">>, <<"0", ".", "0">> >>),
    Join(<< <<"0">>, C4, E4, <<"1", "/", "3">>, <<"0", ".", "5">> >>),
    Join(<< <<"N", "o", "n", "e">>, E4, <<"0", ".", "5">>, <<"1", ".", "0">> >>),
    Join(<< <<"0">>, C4, <<"h", "a", "l", "f">>, <<"0", ".", "0">> >>) }

GenIdle ==
  /\ err = NoErr
  /\ loaded_notes = <<>>
  /\ pitchnames = <<>>
  /\ n_vocab = 0
  /\ note_to_int = <<>>
  /\ network_input = <<>>
  /\ int_to_note = <<>>
  /\ start = 0
  /\ pattern = <<>>
  /\ aliased = FALSE
  /\ note_index = 0
  /\ prediction_output = <<>>
  /\ token_index = 1
  /\ instruments = <<>>
  /\ key_index = 1
  /\ midi_stream = <<>>
  /\ warnings = <<>>
  /\ output_file = FALSE

TrainIdle ==
  /\ train_pc = "idle"
  /\ train_note_to_int = <<>>
  /\ train_input = <<>>
  /\ train_output = <<>>

\* Extraction: a corpus on disk, no data/notes yet.
InitExtract ==
  /\ corpus \in SeqsUpTo(Documents, MaxFiles) \ {<<>>}
  /\ file_index = 1
  /\ notes = <<>>
  /\ data_notes = [exists |-> FALSE, content |-> <<>>]
  /\ get_pc = "scan"
  /\ run_no = 1
  /\ prev_notes = <<>>
  /\ TrainIdle
  /\ gen_pc = "idle"
  /\ GenIdle

NextExtract ==
  \/ get_notes_file
  \/ get_notes_dump
  \/ get_notes_again

SpecExtract == InitExtract /\ [][NextExtract]_vars

\* Training windows and generation: get_notes has returned the stream it
\* left in data/notes, or data/notes is not there.
Init ==
  /\ corpus = <<>>
  /\ file_index = 1
  /\ run_no = 1
  /\ prev_notes = <<>>
  /\ \/ \E ns \in SeqsUpTo(Tokens, MaxNotes) :
          /\ notes = ns
          /\ data_notes = [exists |-> TRUE, content |-> ns]
          /\ get_pc = "done"
     \/ /\ notes = <<>>
        /\ data_notes = [exists |-> FALSE, content |-> <<>>]
        /\ get_pc = "scan"
  /\ TrainIdle
  /\ gen_pc = "start"
  /\ GenIdle

Next ==
  \/ lstm_prepare_sequences
  \/ generate_load
  \/ generate_prepare_sequences
  \/ generate_create_network
  \/ generate_notes_seed
  \/ generate_notes_step
  \/ generate_notes_return
  \/ create_midi_token
  \/ create_midi_score
  \/ create_midi_part
  \/ create_midi_write

Spec == Init /\ [][Next]_vars

(***************************************************************************)
(* Properties                                                              *)
(***************************************************************************)
Max0(n) == IF n > 0 THEN n ELSE 0

\* The pitch names of a token: the fields between the first and the last two.
PitchField(tok) == LET parts == Split(tok) IN SubSeq(parts, 2, Len(parts) - 2)

\* C1: a stream of length M windowed with length L gives M - L samples (none
\* when M <= L); sample i is the ids of stream[i .. i+L-1], in order, and its
\* target the id of stream[i+L]; in lstm.prepare_sequences and in
\* predict.prepare_sequences alike.
C1_WindowingComplete ==
  /\ train_pc # "idle" =>
       /\ Len(train_input) = Max0(Len(notes) - LstmSequenceLength)
       /\ Len(train_output) = Len(train_input)
       /\ \A i \in 1..Len(train_input) :
            /\ Len(train_input[i]) = LstmSequenceLength
            /\ \A j \in 1..LstmSequenceLength :
                 train_input[i][j] = train_note_to_int[notes[i + j - 1]]
            /\ train_output[i] = train_note_to_int[notes[i + LstmSequenceLength]]
  /\ gen_pc \in {"create_network", "seed"} =>
       /\ Len(network_input) = Max0(Len(loaded_notes) - PredictSequenceLength)
       /\ \A i \in 1..Len(network_input) :
            /\ Len(network_input[i]) = PredictSequenceLength
            /\ \A j \in 1..PredictSequenceLength :
                 network_input[i][j] = note_to_int[loaded_notes[i + j - 1]]
            /\ predict_output(loaded_notes, note_to_int)[i] =
                 note_to_int[loaded_notes[i + PredictSequenceLength]]

C1_Witness ==
  /\ train_pc = "returned"
  /\ Len(train_input) >= 2
  /\ train_input[1] # train_input[2]
  /\ train_output[1] # train_output[2]
  /\ gen_pc = "seed"
  /\ Len(network_input) >= 2

\* The seed window: the window of the id stream that start points at.
SeedWindow ==
  [j \in 1..PredictSequenceLength |-> note_to_int[loaded_notes[start + j]]]

\* The ids selected so far, in selection order.
SelectedIds == [k \in 1..Len(prediction_output) |-> note_to_int[prediction_output[k]]]

LastOf(q, n) == SubSeq(q, Len(q) - n + 1, Len(q))

\* C2: the generation loop makes exactly NumGenerated passes; the window
\* handed to the model always has the window length and is the last
\* elements of the seed followed by the ids selected so far; the output
\* returned has NumGenerated entries.
C2_GeneratorLength ==
  /\ gen_pc = "loop" =>
       /\ note_index <= NumGenerated
       /\ Len(prediction_output) = note_index
       /\ Len(pattern) = PredictSequenceLength
       /\ pattern = LastOf(SeedWindow \o SelectedIds, PredictSequenceLength)
  /\ gen_pc \in {"decode", "resolve", "done"} =>
       /\ note_index = NumGenerated
       /\ Len(prediction_output) = NumGenerated

C2_Witness ==
  /\ gen_pc = "decode"
  /\ Len(prediction_output) = NumGenerated
  /\ prediction_output[1] # prediction_output[2]
  /\ pattern # SeedWindow

\* C3: for a non-empty stream the token-to-id mapping is a bijection between
\* the distinct tokens, in lexicographic order, and 0 .. n_vocab-1; training
\* and generation build the same mapping; every id of a window or target,
\* and every id the generator can select, maps back to one token, and
\* id -> token -> id is the identity.
C3_VocabularyBijection ==
  /\ gen_pc \in {"create_network", "seed", "loop", "decode"} /\ loaded_notes # <<>> =>
       /\ DOMAIN note_to_int = Range(loaded_notes)
       /\ {note_to_int[t] : t \in DOMAIN note_to_int} = 0..(n_vocab - 1)
       /\ \A a, b \in DOMAIN note_to_int :
            LexLess(a, b) <=> note_to_int[a] < note_to_int[b]
       /\ train_pc # "idle" => train_note_to_int = note_to_int
       /\ \A i \in 1..Len(network_input) : \A j \in 1..Len(network_input[i]) :
            network_input[i][j] \in 0..(n_vocab - 1)
  /\ train_pc # "idle" =>
       /\ \A i \in 1..Len(train_input) : \A j \in 1..Len(train_input[i]) :
            train_input[i][j] \in 0..(Cardinality(Range(notes)) - 1)
       /\ \A i \in 1..Len(train_output) :
            train_output[i] \in 0..(Cardinality(Range(notes)) - 1)
  /\ gen_pc \in {"loop", "decode"} =>
       /\ DOMAIN int_to_note = 0..(n_vocab - 1)
       /\ \A i \in 0..(n_vocab - 1) : note_to_int[int_to_note[i]] = i
       /\ \A t \in DOMAIN note_to_int : int_to_note[note_to_int[t]] = t
       /\ \A j \in 1..Len(pattern) : pattern[j] \in DOMAIN int_to_note

C3_Witness ==
  /\ gen_pc = "loop"
  /\ n_vocab >= 3
  /\ note_index = NumGenerated
  /\ train_pc = "returned"
  /\ loaded_notes[1] # int_to_note[0]

\* C4: whenever the stream gives at least one window, the choice of the
\* seed succeeds (and any of the windows can be the one chosen).
C4_SeedSelectionSucceeds ==
  err = <<"ValueError", "generate_notes">> =>
    Len(loaded_notes) <= PredictSequenceLength

\* The duration literal of the token create_midi is at.
CurrentDuration ==
  LET parts == Split(prediction_output[token_index])
  IN  parts[Len(parts) - 1]

\* C5: set_duration fails only on a literal that is neither a float, nor a
\* quotient a/b, nor a duration name: a literal that is a valid duration
\* name decodes.
C5_NamedDurationDecodes ==
  gen_pc = "raised" /\ err[2] = "set_duration" =>
    CurrentDuration \notin DurationTypes

\* The instrument keys of the tokens decoded, in first-occurrence order.
RECURSIVE KeysOf(_)
KeysOf(toks) ==
  IF toks = <<>> THEN <<>>
  ELSE LET rest == KeysOf(SubSeq(toks, 1, Len(toks) - 1))
           k == Split(toks[Len(toks)])[1]
       IN  IF k \in Range(rest) THEN rest ELSE Append(rest, k)

CountOf(part, c) == Cardinality({i \in 1..Len(part) : part[i].cls = c})

\* C6: resolving the instrument of a group never raises, whatever its key;
\* a key the lookup fails for gets a warning and an instrument of the
\* catalog; every group becomes one part with one instrument and a time
\* signature.
C6_InstrumentFallback ==
  /\ err[2] # "instrumentFromMidiProgram"
  /\ gen_pc \in {"resolve", "done"} =>
       /\ Len(midi_stream) = key_index - 1
       /\ \A i \in 1..Len(midi_stream) :
            /\ CountOf(midi_stream[i], "Instrument") = 1
            /\ CountOf(midi_stream[i], "TimeSignature") = 1
            /\ SubSeq(midi_stream[i], 3, Len(midi_stream[i])) = instruments[i].elems
            /\ LookupSucceeds(instruments[i].key) =>
                 midi_stream[i][2].value = <<"program", StrToInt(instruments[i].key)>>
            /\ ~LookupSucceeds(instruments[i].key) =>
                 /\ midi_stream[i][2].value[1] = "random"
                 /\ midi_stream[i][2].value[2] \in Range(InstrumentCatalog)
       /\ warnings = SelectSeq([i \in 1..Len(midi_stream) |-> instruments[i].key],
                               LAMBDA k : ~LookupSucceeds(k))
  /\ gen_pc = "done" =>
       [i \in 1..Len(midi_stream) |-> instruments[i].key] = KeysOf(prediction_output)

C6_Witness ==
  /\ gen_pc = "done"
  /\ Len(midi_stream) = 2
  /\ Len(warnings) = 2
  /\ \E i \in 1..2 : AllDigits(warnings[i])
  /\ \E i \in 1..2 : ~AllDigits(warnings[i])

\* C7 as stated: a file that fails to parse is skipped and the scan goes
\* on, so the scan never aborts and what is persisted is the tokens of the
\* files that parsed.
C7_BadFileSkipped ==
  /\ get_pc # "raised"
  /\ get_pc = "done" => data_notes = [exists |-> TRUE, content |-> notes]

\* C7 as amended: a failure of converter.parse is not caught.  The scan
\* aborts at the first file that fails to parse: no later file is visited
\* and the run persists nothing.  Only a failure to partition a parsed file
\* by instrument is caught, and its flat notes are used.  When every file
\* parses the scan visits them all and persists the stream it returns.
C7_ParseFailureAborts ==
  /\ get_pc = "raised" =>
       /\ file_index <= Len(corpus)
       /\ ~corpus[file_index].parses
       /\ \A k \in 1..(file_index - 1) : corpus[k].parses
       /\ ~data_notes.exists
  /\ get_pc = "scan" =>
       \A k \in 1..(file_index - 1) : corpus[k].parses
  /\ get_pc = "done" =>
       /\ file_index = Len(corpus) + 1
       /\ \A k \in 1..Len(corpus) : corpus[k].parses
       /\ data_notes = [exists |-> TRUE, content |-> notes]
       /\ \A k \in 1..Len(corpus) : ~corpus[k].partitioned => notes # <<>>

C7_Witness ==
  /\ get_pc = "raised"
  /\ file_index = 1
  /\ Len(corpus) = 2
  /\ corpus[2].parses
  /\ ~corpus[2].partitioned

\* C8: two runs of get_notes over the unchanged corpus return the same
\* token stream.
C8_ExtractionDeterministic ==
  run_no > 1 /\ get_pc = "done" => notes = prev_notes

\* The pitch lists of the notes and chords of a sequence of elements.
RECURSIVE EventPitches(_)
EventPitches(elems) ==
  IF elems = <<>> THEN <<>>
  ELSE (IF Head(elems).cls \in {"Note", "Chord"}
        THEN <<Head(elems).pitches>> ELSE <<>>) \o EventPitches(Tail(elems))

RECURSIVE PartsPitches(_)
PartsPitches(parts) ==
  IF parts = <<>> THEN <<>>
  ELSE EventPitches(Head(parts).elements) \o PartsPitches(Tail(parts))

RECURSIVE CorpusPitches(_)
CorpusPitches(docs) ==
  IF docs = <<>> THEN <<>>
  ELSE (IF Head(docs).partitioned
        THEN PartsPitches(Head(docs).parts)
        ELSE EventPitches(Head(docs).flat)) \o CorpusPitches(Tail(docs))

\* C10: get_notes emits one token per note and one per chord, in encounter
\* order, with the pitches in encountered order, in a document of parts and
\* in a flat document alike.
C10_OneTokenPerNoteAndChord ==
  get_pc = "done" =>
    [i \in 1..Len(notes) |-> PitchField(notes[i])] = CorpusPitches(corpus)

\* C9: a .mid file is written only as the last step of a run: after all
\* NumGenerated ids were generated, every token decoded and every
\* instrument resolved; a run that failed anywhere has written no file.
C9_WriteIsLast ==
  /\ output_file =>
       /\ gen_pc = "done"
       /\ err = NoErr
       /\ Len(prediction_output) = NumGenerated
       /\ token_index = NumGenerated + 1
       /\ key_index = Len(instruments) + 1
       /\ Len(midi_stream) = Len(instruments)
  /\ gen_pc = "raised" => ~output_file
  /\ gen_pc = "done" => output_file

C9_Witness ==
  /\ gen_pc = "raised"
  /\ err[2] = "set_duration"
  /\ token_index = NumGenerated
  /\ Len(prediction_output) = NumGenerated
  /\ ~output_file

=============================================================================
